---- MODULE Spec2Model ----
(***************************************************************************)
(* Model of the page script of vicent-baeza/website                        *)
(* (src/unnamed/part_000; src/docs/scripts.js is the same script without   *)
(* the search section).                                                    *)
(*                                                                         *)
(* Strings the script inspects (the query text, the index words, the site  *)
(* paths) are sequences of code points.  A JavaScript value that may be    *)
(* undefined/null is an option: <<>> is undefined, <<v>> is the value v.   *)
(* JavaScript arrays are sequences; index i of the array is element i+1.   *)
(* Each event handler runs to completion, so each is one action.           *)
(***************************************************************************)
EXTENDS Integers, Sequences, FiniteSets, TLC

VARIABLES
    search_sites,     \* let search_sites  (option of array of site records)
    search_confs,     \* let search_confs  (option of array of arrays of site indices)
    search_words,     \* let search_words  (option of object word -> bucket id)
    fetch,            \* state of the promise of read_search_data()
    search_textbox,   \* search_textbox.value
    search_bg,        \* TRUE iff search_bg has class 'active'
    search_options,   \* the search-option slots; <<>> = as delivered in the markup
    sites,            \* the array last logged by console.log(sites)
    outcome,          \* how the last run of onSearchChange ended
    lightmode,        \* TRUE iff document.body has class 'lightmode'
    localStorage,     \* localStorage.getItem('lightmode'): <<>> is null
    script,           \* whether the top-level script ran to its end
    last_event,       \* the handler that ran last
    storage_call,     \* the last storage call made: [op, threw]
    warned,           \* that storage call was answered by console.warn
    uncaught,         \* the exception of that storage call left its handler
    loaded,           \* "no" | "timer" (setTimeout pending) | "yes" (class 'loaded')
    fullscreen,       \* the fullscreen overlay: style and shown card
    stop_scrolling    \* TRUE iff document.body has class 'stop-scrolling'

search_vars == <<search_sites, search_confs, search_words, fetch, search_textbox,
                 search_bg, search_options, sites, outcome>>
theme_vars == <<lightmode, localStorage, storage_call, warned, uncaught>>
page_vars == <<loaded, fullscreen, stop_scrolling>>
vars == <<search_vars, theme_vars, page_vars, script, last_event>>

-----------------------------------------------------------------------------
(* Bounds of the model *)

\* longest query text enumerated exhaustively
MaxLen == 2
\* largest number of search-option slots in the page markup
MaxCapacity == 3

(* Code points the script names *)
Space == 32
Slash == 47
CombiningFirst == 768
CombiningLast == 879

Undefined == <<>>
Defined(v) == <<v>>
Value(opt) == opt[1]

Range(s) == {s[i] : i \in 1..Len(s)}

-----------------------------------------------------------------------------
(* The query text: normalisation and tokenisation (onSearchChange, 214-216) *)

\* String.prototype.normalize('NFKD') on one code point, for the code points
\* of the model: U+00E1 (a with acute) decomposes canonically to a + U+0301,
\* U+00A0 (no-break space) decomposes by compatibility to U+0020, U+00A8
\* (diaeresis) to U+0020 U+0308, U+FB01 (ligature fi) to f i; ASCII letters,
\* the space and a lone combining mark decompose to themselves.
DecomposeChar(c) ==
    CASE c = 225   -> <<97, 769>>
      [] c = 160   -> <<Space>>
      [] c = 168   -> <<Space, 776>>
      [] c = 64257 -> <<102, 105>>
      [] OTHER     -> <<c>>

RECURSIVE NFKD(_)
NFKD(text) ==
    IF text = <<>> THEN <<>>
    ELSE DecomposeChar(Head(text)) \o NFKD(Tail(text))

IsCombiningMark(c) == c >= CombiningFirst /\ c <= CombiningLast

\* .replace(/[\u0300-\u036f]/g, "")
StripMarks(text) == SelectSeq(text, LAMBDA c : ~IsCombiningMark(c))

\* the two steps of line 215 in the other order: the marks are stripped
\* from the text as typed, then the text is decomposed
Normalize_StripFirst(text) == NFKD(StripMarks(text))

\* ascii_text
Normalize(text) == StripMarks(NFKD(text))

\* index of the first separator in text, 0 when there is none
RECURSIVE IndexOf(_, _, _)
IndexOf(text, sep, from) ==
    IF from > Len(text) THEN 0
    ELSE IF text[from] = sep THEN from
    ELSE IndexOf(text, sep, from + 1)

\* String.prototype.split(' '): "" gives [""], "a " gives ["a", ""]
RECURSIVE Split(_, _)
Split(text, sep) ==
    LET i == IndexOf(text, sep, 1) IN
    IF i = 0 THEN <<text>>
    ELSE <<SubSeq(text, 1, i - 1)>> \o Split(SubSeq(text, i + 1, Len(text)), sep)

\* const words = ascii_text.split(' ')
Tokens(text) == Split(Normalize(text), Space)

-----------------------------------------------------------------------------
(* Property lookup on the index objects *)

\* Property names every object parsed from JSON inherits from
\* Object.prototype; the model keeps three of them:
\* "constructor", "valueOf", "__proto__".
Constructor == <<99, 111, 110, 115, 116, 114, 117, 99, 116, 111, 114>>
ValueOf == <<118, 97, 108, 117, 101, 79, 102>>
Proto == <<95, 95, 112, 114, 111, 116, 111, 95, 95>>
ObjectPrototypeKeys == {Constructor, ValueOf, Proto}

\* GetProperty with a default: a word that is not a property gives bucket 0
\* (search_words[word] ?? 0).
GetProperty_DefaultBucket(words, word) ==
    IF word \in DOMAIN words THEN [type |-> "number", val |-> words[word]]
    ELSE [type |-> "number", val |-> 0]

\* search_words[word]: an own property gives its number, an inherited one
\* gives the inherited function/object, anything else gives undefined.
GetProperty(words, word) ==
    IF word \in DOMAIN words THEN [type |-> "number", val |-> words[word]]
    ELSE IF word \in ObjectPrototypeKeys THEN [type |-> "object", val |-> 0]
    ELSE [type |-> "undefined", val |-> 0]

\* array[key] for a key computed by the script: a number inside the array
\* gives the element, every other key gives undefined.
ArrayGet(array, key) ==
    IF key.type = "number" /\ key.val \in 0..(Len(array) - 1)
    THEN Defined(array[key.val + 1])
    ELSE Undefined

\* Array.prototype.includes
Includes(array, x) == x \in Range(array)

-----------------------------------------------------------------------------
(* onSearchChange: the accumulation loops (217-230) *)

\* InnerLoop without the includes test of lines 224-225
RECURSIVE InnerLoop_NoDedup(_, _, _, _)
InnerLoop_NoDedup(word_sites_idx, k, acc, capacity) ==
    IF k > Len(word_sites_idx) THEN acc
    ELSE LET pushed == Append(acc, word_sites_idx[k]) IN
         IF Len(pushed) >= capacity THEN pushed
         ELSE InnerLoop_NoDedup(word_sites_idx, k + 1, pushed, capacity)

\* for (const word_site_idx of word_sites_idx) { ... }   lines 223-229
RECURSIVE InnerLoop(_, _, _, _)
InnerLoop(word_sites_idx, k, acc, capacity) ==
    IF k > Len(word_sites_idx) THEN acc
    ELSE IF Includes(acc, word_sites_idx[k])
         THEN InnerLoop(word_sites_idx, k + 1, acc, capacity)
         ELSE LET pushed == Append(acc, word_sites_idx[k]) IN
              IF Len(pushed) >= capacity THEN pushed
              ELSE InnerLoop(word_sites_idx, k + 1, pushed, capacity)

\* for (const word of words) { ... }   lines 218-230.  The break of line 228
\* leaves the inner loop only.  search_confs undefined makes line 222 throw;
\* a bucket that is undefined makes the for-of of line 223 throw.  `threw`
\* is "" or the TypeError with the line that raised it.
RECURSIVE OuterLoop(_, _, _, _, _, _)
OuterLoop(words, confs, tokens, k, acc, capacity) ==
    IF k > Len(tokens) THEN [threw |-> "", sites |-> acc]
    ELSE LET word_conf == GetProperty(words, tokens[k]) IN
         IF word_conf.type = "undefined"
         THEN OuterLoop(words, confs, tokens, k + 1, acc, capacity)
         ELSE IF confs = Undefined THEN [threw |-> "TypeError@222", sites |-> acc]
         ELSE LET word_sites_idx == ArrayGet(Value(confs), word_conf) IN
              IF word_sites_idx = Undefined THEN [threw |-> "TypeError@223", sites |-> acc]
              ELSE OuterLoop(words, confs, tokens, k + 1,
                             InnerLoop(Value(word_sites_idx), 1, acc, capacity),
                             capacity)

-----------------------------------------------------------------------------
(* onSearchChange: rendering the slots (233-255) *)

\* PopulatedSlot marking a link external only when its path is not empty
\* (site['path'] && site['path'][0] != '/' ? '_blank' : '')
PopulatedSlot_EmptyPathInternal(site) ==
    [disabled |-> FALSE,
     href     |-> site.path,
     title    |-> site.title,
     link     |-> site.path,
     target   |-> IF Len(site.path) > 0 /\ site.path[1] # Slash THEN "_blank" ELSE ""]

\* lines 240-245
PopulatedSlot(site) ==
    [disabled |-> FALSE,
     href     |-> site.path,
     title    |-> site.title,
     link     |-> site.path,
     target   |-> IF Len(site.path) > 0 /\ site.path[1] = Slash THEN "" ELSE "_blank"]

\* lines 248-252
EmptySlot ==
    [disabled |-> TRUE, href |-> <<Slash>>, title |-> "", link |-> <<>>, target |-> ""]

\* RenderLoop without the else branch of lines 247-253: a slot beyond the
\* result keeps what it showed
RECURSIVE RenderLoop_KeepOld(_, _, _, _)
RenderLoop_KeepOld(sites_dir, acc, index, options) ==
    IF index >= Len(options) THEN [threw |-> "", options |-> options]
    ELSE IF index < Len(acc)
         THEN IF sites_dir = Undefined THEN [threw |-> "TypeError@240", options |-> options]
              ELSE
              LET site == ArrayGet(Value(sites_dir),
                                   [type |-> "number", val |-> acc[index + 1]]) IN
              IF site = Undefined THEN [threw |-> "TypeError@242", options |-> options]
              ELSE RenderLoop_KeepOld(sites_dir, acc, index + 1,
                              [options EXCEPT ![index + 1] = Defined(PopulatedSlot(Value(site)))])
         ELSE RenderLoop_KeepOld(sites_dir, acc, index + 1, options)

\* while(index < search_options.length) { ... }   lines 234-255; index counts
\* from 0.  Indexing an undefined search_sites (line 240) or reading a field
\* of an undefined site (line 242) throws and leaves the slots written so far.
RECURSIVE RenderLoop(_, _, _, _)
RenderLoop(sites_dir, acc, index, options) ==
    IF index >= Len(options) THEN [threw |-> "", options |-> options]
    ELSE IF index < Len(acc)
         THEN IF sites_dir = Undefined THEN [threw |-> "TypeError@240", options |-> options]
              ELSE
              LET site == ArrayGet(Value(sites_dir),
                                   [type |-> "number", val |-> acc[index + 1]]) IN
              IF site = Undefined THEN [threw |-> "TypeError@242", options |-> options]
              ELSE RenderLoop(sites_dir, acc, index + 1,
                              [options EXCEPT ![index + 1] = Defined(PopulatedSlot(Value(site)))])
         ELSE RenderLoop(sites_dir, acc, index + 1,
                         [options EXCEPT ![index + 1] = Defined(EmptySlot)])

\* lines 214-255 of onSearchChange: what it does once search_words is known
\* to be defined.  When the loops throw, nothing is logged or rendered.
SearchLoaded(words, confs, sites_dir, text, options, logged) ==
    LET acc == OuterLoop(Value(words), confs, Tokens(text), 1, <<>>, Len(options)) IN
    IF acc.threw # ""
    THEN [outcome |-> acc.threw, sites |-> logged, options |-> options]
    ELSE LET r == RenderLoop(sites_dir, acc.sites, 0, options) IN
         [outcome |-> IF r.threw # "" THEN r.threw ELSE "rendered",
          sites   |-> acc.sites,
          options |-> r.options]

\* onSearchChange without the test of lines 210-213: search_words[word] on an
\* undefined search_words throws at line 219.
onSearchChange_NoGuard(words, confs, sites_dir, text, options, logged) ==
    IF words = Undefined
    THEN [outcome |-> "TypeError@219", sites |-> logged, options |-> options]
    ELSE SearchLoaded(words, confs, sites_dir, text, options, logged)

\* function onSearchChange(e), lines 209-256, as a function of what it reads:
\* the three index variables, the textbox value, the slots.  `outcome` is
\* "unavailable" (the return of line 212), "rendered" or the TypeError.
onSearchChange(words, confs, sites_dir, text, options, logged) ==
    IF words = Undefined
    THEN [outcome |-> "unavailable", sites |-> logged, options |-> options]
    ELSE SearchLoaded(words, confs, sites_dir, text, options, logged)

-----------------------------------------------------------------------------
(* Storage access with its error handling (71-84) *)

\* trycatch whose catch block throws the error again
trycatch_Rethrow(trybody, defaultReturn) ==
    [threw |-> trybody.threw, value |-> trybody.value, handled |-> trybody.threw]

\* function trycatch(trybody, errorhandler, defaultReturn): the body is given
\* by how it ended, [threw, value]; `handled` says errorhandler was called.
trycatch(trybody, defaultReturn) ==
    IF trybody.threw
    THEN [threw |-> FALSE, value |-> defaultReturn, handled |-> TRUE]
    ELSE [threw |-> FALSE, value |-> trybody.value, handled |-> FALSE]

\* function localstorage_errors(trybody): the handler is console.warn and
\* the default return is ''.
localstorage_errors(trybody) == trycatch(trybody, Defined(""))

\* localStorage.getItem('lightmode'), which may throw
getItem(store, fails) ==
    IF fails THEN [threw |-> TRUE, value |-> Undefined]
    ELSE [threw |-> FALSE, value |-> store]

\* localStorage.setItem('lightmode', v), which may throw; `store` is what
\* the storage holds afterwards
setItem(store, v, fails) ==
    IF fails THEN [threw |-> TRUE, value |-> Undefined, store |-> store]
    ELSE [threw |-> FALSE, value |-> Undefined, store |-> Defined(v)]

-----------------------------------------------------------------------------
(* Data the page is served with *)

\* the overlay before any click: no inline style, the image, title, date
\* and content of the markup
FullscreenMarkup ==
    [zIndex |-> "", display |-> "", img |-> Undefined, title |-> Undefined,
     date |-> Undefined, content |-> Undefined]

\* what an earlier session can have left under the key 'lightmode'
StoredValues == {Undefined, Defined("enabled"), Defined("disabled")}

SiteA == [title |-> "A", path |-> <<Slash, 97>>]
SiteB == [title |-> "B", path |-> <<104>>]
SiteC == [title |-> "C", path |-> <<>>]
SiteD == [title |-> "D", path |-> <<Slash>>]

Cat == <<99, 97, 116>>
Dog == <<100, 111, 103>>

\* the index of the specification's example: sites 2, 5 and 7 are A, B, C
IdxExample ==
    [sites       |-> <<SiteD, SiteD, SiteA, SiteD, SiteD, SiteB, SiteD, SiteC>>,
     score_confs |-> << <<2, 5>>, <<5, 7>> >>,
     words       |-> (Cat :> 0) @@ (Dog :> 1)]

\* words a, b, ab; a bucket listing a site twice, two buckets that overlap,
\* an empty bucket
IdxSmall ==
    [sites       |-> <<SiteA, SiteB, SiteC, SiteD>>,
     score_confs |-> << <<0, 1, 0, 2>>, <<1, 3>>, <<>> >>,
     words       |-> (<<97>> :> 0) @@ (<<98>> :> 1) @@ (<<97, 98>> :> 2)]

\* an index whose word map has an entry for the empty string
IdxEmptyWord ==
    [sites       |-> <<SiteA, SiteB>>,
     score_confs |-> << <<1>>, <<0>> >>,
     words       |-> (<<>> :> 0) @@ (<<97>> :> 1)]

\* the documents /files/search_data.json can hold
Indexes == {IdxExample, IdxSmall, IdxEmptyWord}

\* characters typed: a, b, space, a-acute
Alphabet == {97, 98, Space, 225}

AllStrings(n) == UNION {[1..k -> Alphabet] : k \in 0..n}

ExampleQueries ==
    {Cat, Dog, Cat \o <<Space>> \o Dog, Dog \o <<Space>> \o Cat,
     Constructor, ValueOf, Proto, <<97, Space>> \o Constructor,
     <<97, 769>>, <<97, 160, 98>>, <<Space>> \o Cat \o <<Space, Space>> \o Dog,
     <<97, Space, 98>>, <<98, Space, 97>>, <<97, Space, Space, 98>>,
     <<Space, 97, Space>>, <<97, 98, Space, 97>>, <<98, Space, 225, Space, 97, 98>>,
     <<99, 225, 116>>, <<99, 97, 769, 116>>, <<97, 769, Space, 98>>,
     <<97, 168, 98>>, <<64257>>}

\* the texts an input event can leave in the textbox
Queries == AllStrings(MaxLen) \cup ExampleQueries

SmallQueries == {<<>>, Cat \o <<Space>> \o Dog, Constructor}

-----------------------------------------------------------------------------
(* The top-level script (70-257) *)

\* The state the script leaves when it has run: the theme is read from the
\* storage (91-93), the index variables are declared undefined (169-171), the
\* fetch is started (182) and the handlers are registered.  An exception
\* that escapes line 91 ends the script there.
Startup(store, fails, capacity) ==
    LET r == localstorage_errors(getItem(store, fails)) IN
    [script        |-> IF r.threw THEN "aborted" ELSE "completed",
     lightmode     |-> ~r.threw /\ r.value = Defined("enabled"),
     storage_call  |-> [op |-> "getItem", threw |-> fails],
     warned        |-> r.handled,
     uncaught      |-> r.threw,
     fetch         |-> IF r.threw THEN "none" ELSE "pending",
     options       |-> [i \in 1..capacity |-> Undefined]]

InitWith(Stores, Fails, Capacities) ==
    \E store \in Stores, fails \in Fails, capacity \in Capacities :
        LET s == Startup(store, fails, capacity) IN
        /\ localStorage = store
        /\ script = s.script
        /\ lightmode = s.lightmode
        /\ storage_call = s.storage_call
        /\ warned = s.warned
        /\ uncaught = s.uncaught
        /\ fetch = s.fetch
        /\ search_options = s.options
        /\ search_sites = Undefined
        /\ search_confs = Undefined
        /\ search_words = Undefined
        /\ search_textbox = <<>>
        /\ search_bg = FALSE
        /\ sites = <<>>
        /\ outcome = "none"
        /\ last_event = "startup"
        /\ loaded = "no"
        /\ fullscreen = FullscreenMarkup
        /\ stop_scrolling = FALSE

\* a page with MaxCapacity slots
Init == InitWith(StoredValues, BOOLEAN, {MaxCapacity})

\* a session that starts with nothing stored and a working storage
\* and any number of slots
SearchInit == InitWith({Undefined}, {FALSE}, 1..MaxCapacity)

-----------------------------------------------------------------------------
(* The search: index load and handlers *)

\* the callback run again on a fetch already fulfilled, with another document
ReadSearchDataThen_Again ==
    /\ script = "completed"
    /\ fetch \in {"pending", "fulfilled"}
    /\ \E idx \in Indexes :
        /\ search_sites' = Defined(idx.sites)
        /\ search_confs' = Defined(idx.score_confs)
        /\ search_words' = Defined(idx.words)
    /\ fetch' = "fulfilled"
    /\ last_event' = "load"
    /\ UNCHANGED <<search_textbox, search_bg, search_options, sites, outcome>>
    /\ UNCHANGED <<theme_vars, page_vars, script>>

\* the callback publishing in two steps: search_words first, search_confs and
\* search_sites in a later task
ReadSearchDataThen_WordsFirst ==
    /\ script = "completed"
    /\ fetch = "pending"
    /\ \E idx \in Indexes :
        \/ /\ search_words = Undefined
           /\ search_words' = Defined(idx.words)
           /\ UNCHANGED <<search_sites, search_confs, fetch>>
        \/ /\ search_words = Defined(idx.words)
           /\ search_sites' = Defined(idx.sites)
           /\ search_confs' = Defined(idx.score_confs)
           /\ fetch' = "fulfilled"
           /\ UNCHANGED search_words
    /\ last_event' = "load"
    /\ UNCHANGED <<search_textbox, search_bg, search_options, sites, outcome>>
    /\ UNCHANGED <<theme_vars, page_vars, script>>

\* read_search_data().then(([sites, confs, words]) => { ... })   lines 182-191
ReadSearchDataThen ==
    /\ script = "completed"
    /\ fetch = "pending"
    /\ \E idx \in Indexes :
        /\ search_sites' = Defined(idx.sites)
        /\ search_confs' = Defined(idx.score_confs)
        /\ search_words' = Defined(idx.words)
    /\ fetch' = "fulfilled"
    /\ last_event' = "load"
    /\ UNCHANGED <<search_textbox, search_bg, search_options, sites, outcome>>
    /\ UNCHANGED <<theme_vars, page_vars, script>>

\* the fetch or the JSON parse of lines 175-176 fails: the promise is
\* rejected and the callback of line 182 never runs
ReadSearchDataRejected ==
    /\ script = "completed"
    /\ fetch = "pending"
    /\ fetch' = "rejected"
    /\ last_event' = "load_failed"
    /\ UNCHANGED <<search_sites, search_confs, search_words, search_textbox,
                   search_bg, search_options, sites, outcome>>
    /\ UNCHANGED <<theme_vars, page_vars, script>>

\* the effect of one call of onSearchChange on the textbox value `text`
RunSearch(text) ==
    LET r == onSearchChange(search_words, search_confs, search_sites, text,
                            search_options, sites) IN
    /\ search_options' = r.options
    /\ sites' = r.sites
    /\ outcome' = r.outcome

\* search_textbox.oninput = onSearchChange   line 257: the user has changed
\* the text to q
OnInput(Q) ==
    /\ script = "completed"
    /\ \E q \in Q :
        /\ search_textbox' = q
        /\ RunSearch(q)
    /\ last_event' = "input"
    /\ UNCHANGED <<search_sites, search_confs, search_words, fetch, search_bg>>
    /\ UNCHANGED <<theme_vars, page_vars, script>>

\* switch_search_visibility without line 196: the textbox keeps its text and
\* onSearchChange runs on it
switch_search_visibility_NoClear ==
    /\ script = "completed"
    /\ search_bg' = ~search_bg
    /\ IF search_bg'
       THEN /\ UNCHANGED search_textbox
            /\ RunSearch(search_textbox)
            /\ last_event' = "open"
       ELSE /\ UNCHANGED <<search_textbox, search_options, sites, outcome>>
            /\ last_event' = "close"
    /\ UNCHANGED <<search_sites, search_confs, search_words, fetch>>
    /\ UNCHANGED <<theme_vars, page_vars, script>>

\* function switch_search_visibility(e), lines 194-200, the onclick of
\* search_button and of search_bg (201-202)
switch_search_visibility ==
    /\ script = "completed"
    /\ search_bg' = ~search_bg
    /\ IF search_bg'
       THEN /\ search_textbox' = <<>>
            /\ RunSearch(<<>>)
            /\ last_event' = "open"
       ELSE /\ UNCHANGED <<search_textbox, search_options, sites, outcome>>
            /\ last_event' = "close"
    /\ UNCHANGED <<search_sites, search_confs, search_words, fetch>>
    /\ UNCHANGED <<theme_vars, page_vars, script>>

SearchNext ==
    \/ ReadSearchDataThen
    \/ ReadSearchDataRejected
    \/ OnInput(Queries)
    \/ switch_search_visibility

SearchSpec == SearchInit /\ [][SearchNext]_vars

-----------------------------------------------------------------------------
(* Dark mode (90-102) *)

\* number of elements of class 'darkmode-button' in the markup
MaxButtons == 2

\* the click handler reading `enabled` before it toggles the class
darkModeClick_StoresOld(light, store, fails) ==
    LET enabled == light
        set == setItem(store, IF enabled THEN "enabled" ELSE "disabled", fails)
        r == localstorage_errors(set) IN
    [lightmode     |-> ~light,
     store         |-> set.store,
     storage_call  |-> [op |-> "setItem", threw |-> fails],
     warned        |-> r.handled,
     uncaught      |-> r.threw]

\* darkModeButton.addEventListener('click', () => { ... })   lines 95-101,
\* as a function of the body class and the storage
darkModeClick(light, store, fails) ==
    LET enabled == ~light
        set == setItem(store, IF enabled THEN "enabled" ELSE "disabled", fails)
        r == localstorage_errors(set) IN
    [lightmode     |-> enabled,
     store         |-> set.store,
     storage_call  |-> [op |-> "setItem", threw |-> fails],
     warned        |-> r.handled,
     uncaught      |-> r.threw]

DarkModeButtonClick ==
    /\ script = "completed"
    /\ \E button \in 1..MaxButtons, fails \in BOOLEAN :
        LET r == darkModeClick(lightmode, localStorage, fails) IN
        /\ lightmode' = r.lightmode
        /\ localStorage' = r.store
        /\ storage_call' = r.storage_call
        /\ warned' = r.warned
        /\ uncaught' = r.uncaught
    /\ last_event' = "click"
    /\ UNCHANGED <<search_vars, page_vars, script>>

\* The page is loaded again: every variable of the script starts afresh, the
\* storage keeps its value, and the top-level script runs.
Reload ==
    /\ \E fails \in BOOLEAN :
        LET s == Startup(localStorage, fails, Len(search_options)) IN
        /\ script' = s.script
        /\ lightmode' = s.lightmode
        /\ storage_call' = s.storage_call
        /\ warned' = s.warned
        /\ uncaught' = s.uncaught
        /\ fetch' = s.fetch
        /\ search_options' = s.options
    /\ search_sites' = Undefined
    /\ search_confs' = Undefined
    /\ search_words' = Undefined
    /\ search_textbox' = <<>>
    /\ search_bg' = FALSE
    /\ sites' = <<>>
    /\ outcome' = "none"
    /\ last_event' = "startup"
    /\ loaded' = "no"
    /\ fullscreen' = FullscreenMarkup
    /\ stop_scrolling' = FALSE
    /\ UNCHANGED localStorage

-----------------------------------------------------------------------------
(* The 'loaded' class (104-108) *)

\* document.addEventListener('DOMContentLoaded', ...): starts the 500 ms timer
DOMContentLoaded ==
    /\ script = "completed"
    /\ loaded = "no"
    /\ loaded' = "timer"
    /\ last_event' = "domcontentloaded"
    /\ UNCHANGED <<search_vars, theme_vars, fullscreen, stop_scrolling, script>>

\* the callback of setTimeout: document.body.classList.add('loaded')
LoadedTimeout ==
    /\ loaded = "timer"
    /\ loaded' = "yes"
    /\ last_event' = "timeout"
    /\ UNCHANGED <<search_vars, theme_vars, fullscreen, stop_scrolling, script>>

-----------------------------------------------------------------------------
(* Fullscreen images (121-156) *)

\* number of cards matched by '.card.cursor-pointer > img' that hold a
\* title, a date and a fullscreen-content element
MaxCards == 2

\* one more matched card, which holds no element of class 'card-title'
UntitledCard == MaxCards + 1

\* what the loop of lines 130-138 finds in card k: the image and the three
\* elements, each named by the card it belongs to, undefined when missing
Card(k) ==
    [src     |-> Defined(k),
     title   |-> IF k = UntitledCard THEN Undefined ELSE Defined(k),
     date    |-> Defined(k),
     content |-> Defined(k)]

\* parent.onclick without line 147
parentOnclick_NoStopScrolling(fs, stop, card) ==
    LET shown == [fs EXCEPT !.zIndex = "1000", !.display = "flex", !.img = card.src] IN
    IF card.title = Undefined
    THEN [fullscreen |-> shown, stop |-> stop, threw |-> TRUE]
    ELSE [fullscreen |-> [shown EXCEPT !.title = card.title, !.date = card.date,
                                       !.content = card.content],
          stop |-> stop, threw |-> FALSE]

\* parent.onclick = function(e){ ... }   lines 139-148, as a function of the
\* overlay, the body class and the card.  Reading innerHTML of a missing
\* element throws (144, 145 or 146) and ends the handler there.
parentOnclick(fs, stop, card) ==
    LET shown == [fs EXCEPT !.zIndex = "1000", !.display = "flex", !.img = card.src] IN
    IF card.title = Undefined
    THEN [fullscreen |-> shown, stop |-> stop, threw |-> TRUE]
    ELSE IF card.date = Undefined
    THEN [fullscreen |-> [shown EXCEPT !.title = card.title],
          stop |-> stop, threw |-> TRUE]
    ELSE IF card.content = Undefined
    THEN [fullscreen |-> [shown EXCEPT !.title = card.title, !.date = card.date],
          stop |-> stop, threw |-> TRUE]
    ELSE [fullscreen |-> [shown EXCEPT !.title = card.title, !.date = card.date,
                                       !.content = card.content],
          stop |-> TRUE, threw |-> FALSE]

\* a click on one of the cards
CardClick ==
    /\ script = "completed"
    /\ \E k \in 1..UntitledCard :
        LET r == parentOnclick(fullscreen, stop_scrolling, Card(k)) IN
        /\ fullscreen' = r.fullscreen
        /\ stop_scrolling' = r.stop
    /\ last_event' = "card"
    /\ UNCHANGED <<search_vars, theme_vars, loaded, script>>

\* fullscreen.onclick without line 155
FullscreenClick_KeepClass ==
    /\ script = "completed"
    /\ fullscreen' = [fullscreen EXCEPT !.zIndex = "-1000", !.display = "none"]
    /\ last_event' = "overlay"
    /\ UNCHANGED <<search_vars, theme_vars, loaded, script, stop_scrolling>>

\* fullscreen.onclick = function(e) { ... }   lines 152-156
FullscreenClick ==
    /\ script = "completed"
    /\ fullscreen' = [fullscreen EXCEPT !.zIndex = "-1000", !.display = "none"]
    /\ stop_scrolling' = FALSE
    /\ last_event' = "overlay"
    /\ UNCHANGED <<search_vars, theme_vars, loaded, script>>

-----------------------------------------------------------------------------
(* Specifications *)

\* theme, 'loaded' class and fullscreen viewer, over several page loads
PageNext ==
    \/ DarkModeButtonClick
    \/ Reload
    \/ DOMContentLoaded
    \/ LoadedTimeout
    \/ CardClick
    \/ FullscreenClick

PageSpec == Init /\ [][PageNext]_vars

\* every event of one page session
Next ==
    \/ ReadSearchDataThen
    \/ ReadSearchDataRejected
    \/ OnInput(SmallQueries)
    \/ switch_search_visibility
    \/ DarkModeButtonClick
    \/ DOMContentLoaded
    \/ LoadedTimeout
    \/ CardClick
    \/ FullscreenClick

Spec == Init /\ [][Next]_vars

-----------------------------------------------------------------------------
(* Reference definitions used by the properties *)

IndexLoaded == search_words # Undefined

\* the last run of onSearchChange found the index loaded; the textbox still
\* holds the text of that run
SearchedLoaded == outcome \notin {"none", "unavailable"}

Capacity == Len(search_options)

\* the words of the index: the own properties of search_words
IndexWords == DOMAIN Value(search_words)

Bucket(word) == Value(search_confs)[Value(search_words)[word] + 1]

\* the buckets of the tokens present in the index, concatenated in token order
RECURSIVE ConcatBuckets(_)
ConcatBuckets(tokens) ==
    IF tokens = <<>> THEN <<>>
    ELSE (IF Head(tokens) \in IndexWords THEN Bucket(Head(tokens)) ELSE <<>>)
         \o ConcatBuckets(Tail(tokens))

\* s with every later occurrence of an element removed
RECURSIVE FirstOccurrences(_)
FirstOccurrences(s) ==
    IF s = <<>> THEN <<>>
    ELSE LET init == FirstOccurrences(SubSeq(s, 1, Len(s) - 1)) IN
         IF s[Len(s)] \in Range(init) THEN init ELSE Append(init, s[Len(s)])

Reference(text) == FirstOccurrences(ConcatBuckets(Tokens(text)))

Take(s, n) == SubSeq(s, 1, IF n < Len(s) THEN n ELSE Len(s))

\* the contents of the populated slots, in slot order
Shown ==
    LET populated == SelectSeq(search_options,
                               LAMBDA o : o # Undefined /\ ~Value(o).disabled) IN
    [i \in 1..Len(populated) |-> Value(populated[i])]

\* what the slots show for the site indices s
SlotsOf(s) == [i \in 1..Len(s) |-> PopulatedSlot(Value(search_sites)[s[i] + 1])]

AllSlotsEmpty == \A i \in 1..Capacity : search_options[i] = Defined(EmptySlot)

NoDuplicates(s) == \A i, j \in 1..Len(s) : i # j => s[i] # s[j]

-----------------------------------------------------------------------------
(* Properties *)

\* C1: after an onSearchChange that ran with the index loaded, the populated
\* slots, in slot order, show the first `capacity` sites of the reference
\* result of the textbox's text (buckets of the tokens present in the index,
\* in token order, later occurrences of a site removed).
C1_ShownIsReferencePrefix ==
    SearchedLoaded => Shown = SlotsOf(Take(Reference(search_textbox), Capacity))

\* C1 restricted to the runs that ended without an exception
C1_ShownIsReferencePrefixWhenRendered ==
    outcome = "rendered" => Shown = SlotsOf(Take(Reference(search_textbox), Capacity))

\* C2: the list accumulated by onSearchChange never holds more than
\* `capacity` site indices: no token after the one that reached the capacity
\* adds a site.
C2_SitesWithinCapacity == Len(sites) <= Capacity

\* C3: while the index is unloaded, every run of onSearchChange has returned
\* at the availability test without an error, and no slot has been written,
\* whatever the textbox holds.
C3_UnloadedShowsNothing ==
    ~IndexLoaded =>
        /\ outcome \in {"none", "unavailable"}
        /\ \A i \in 1..Capacity : search_options[i] = Undefined

\* a query was typed before the load completed
C3_Witness ==
    /\ ~IndexLoaded
    /\ outcome = "unavailable"
    /\ search_textbox = <<97, Space, 98>>
    /\ last_event = "input"

\* C4: no site index appears twice in the accumulated list, and no two
\* populated slots show the same site.
C4_NoDuplicateSite ==
    /\ NoDuplicates(sites)
    /\ NoDuplicates(Shown)

\* a bucket listing site 0 twice and two overlapping buckets were scanned
C4_Witness ==
    /\ search_words = Defined(IdxSmall.words)
    /\ search_textbox = <<97, Space, 98>>
    /\ outcome = "rendered"
    /\ sites = <<0, 1, 2, 3>>

\* C5: with the index loaded, a query whose tokens all lack an entry in the
\* word index raises no error and leaves every slot empty.
C5_UnknownTokensSkipped ==
    (SearchedLoaded /\ \A w \in Range(Tokens(search_textbox)) : w \notin IndexWords)
        => (outcome = "rendered" /\ AllSlotsEmpty)

\* the tokens joined by single spaces
RECURSIVE Join(_)
Join(tokens) ==
    IF tokens = <<>> THEN <<>>
    ELSE IF Len(tokens) = 1 THEN tokens[1]
    ELSE tokens[1] \o <<Space>> \o Join(Tail(tokens))

\* the query without its leading, trailing and doubled spaces
Squeeze(text) == Join(SelectSeq(Tokens(text), LAMBDA w : w # <<>>))

\* what onSearchChange does in the current state on the text `text`
RunOn(text) ==
    onSearchChange(search_words, search_confs, search_sites, text, search_options, sites)

\* the last run of onSearchChange ended as a run on the text without its
\* extra spaces does, and the empty text leaves every slot empty
EmptyTokensIgnored ==
    /\ RunOn(Squeeze(search_textbox)) =
           [outcome |-> outcome, sites |-> sites, options |-> search_options]
    /\ search_textbox = <<>> => (outcome = "rendered" /\ AllSlotsEmpty)

\* C6 as stated: with the index loaded, empty tokens never match: the empty
\* query leaves every slot empty and a query gives the result of the same
\* query without its extra spaces.
C6_EmptyTokensNeverMatch == SearchedLoaded => EmptyTokensIgnored

\* C6, amended: the same, for an index whose word map has no entry for the
\* empty string.
C6_EmptyTokensNoMatchUnlessIndexed ==
    (SearchedLoaded /\ <<>> \notin IndexWords) => EmptyTokensIgnored

\* a query with a leading and a trailing space around a matching word
C6_Witness ==
    /\ search_words = Defined(IdxSmall.words)
    /\ search_textbox = <<Space, 97, Space>>
    /\ outcome = "rendered"
    /\ sites # <<>>

\* C7: once the index is loaded no event changes search_sites, search_confs
\* or search_words (so the index is loaded at most once and never unloaded),
\* and a run of onSearchChange never writes them.
C7_IndexLoadedOnce ==
    [][/\ IndexLoaded => UNCHANGED <<search_sites, search_confs, search_words>>
       /\ last_event' \in {"input", "open", "close"}
              => UNCHANGED <<search_sites, search_confs, search_words>>]_vars

\* a search was rendered from the loaded index and a theme click followed
C7_Witness ==
    /\ IndexLoaded
    /\ outcome = "rendered"
    /\ sites # <<>>
    /\ last_event = "click"

\* C8: whenever search_words is defined, search_confs and search_sites are
\* defined too, and no run of onSearchChange has failed on an undefined
\* search_confs (line 222) or search_sites (line 240).
C8_WordsImplyConfsAndSites ==
    /\ IndexLoaded => (search_confs # Undefined /\ search_sites # Undefined)
    /\ outcome \notin {"TypeError@222", "TypeError@240"}

\* a run passed the availability test and read search_confs and search_sites
C8_Witness ==
    /\ IndexLoaded
    /\ last_event = "input"
    /\ outcome = "rendered"
    /\ Shown # <<>>

\* C9: a getItem that throws at startup is caught and logged, leaves the
\* lightmode class off and lets the script run to its end; a setItem that
\* throws in a click is caught and logged, the handler ends normally, the
\* class has been toggled and the stored value is unchanged.
C9_StorageFailuresCaught ==
    /\ [](storage_call = [op |-> "getItem", threw |-> TRUE]
              => (warned /\ ~uncaught /\ ~lightmode /\ script = "completed"))
    /\ [][(last_event' = "click" /\ storage_call'.threw)
              => /\ warned'
                 /\ ~uncaught'
                 /\ lightmode' = ~lightmode
                 /\ localStorage' = localStorage]_vars

\* a click whose setItem threw: the class is on, the warning was logged
C9_Witness ==
    /\ last_event = "click"
    /\ storage_call = [op |-> "setItem", threw |-> TRUE]
    /\ warned
    /\ lightmode

\* C10: after a click whose setItem succeeded the stored value is 'enabled'
\* when the body has the lightmode class and 'disabled' otherwise; after a
\* page load whose getItem succeeded the body has the class exactly when the
\* stored value is 'enabled'; so a reload after such a click keeps the theme.
C10_ThemePersisted ==
    /\ [](storage_call = [op |-> "setItem", threw |-> FALSE]
              => localStorage = Defined(IF lightmode THEN "enabled" ELSE "disabled"))
    /\ [](storage_call = [op |-> "getItem", threw |-> FALSE]
              => (lightmode <=> localStorage = Defined("enabled")))
    /\ [][(storage_call = [op |-> "setItem", threw |-> FALSE]
           /\ storage_call' = [op |-> "getItem", threw |-> FALSE])
              => lightmode' = lightmode]_vars

\* the page was reloaded after light mode was chosen
C10_Witness ==
    /\ last_event = "startup"
    /\ storage_call = [op |-> "getItem", threw |-> FALSE]
    /\ lightmode
    /\ localStorage = Defined("enabled")

\* C11: after an onSearchChange that ran with the index loaded and produced
\* its list of sites, every slot is written: slot i shows the title and path
\* of the i-th site of the result of the current text and is not disabled,
\* every slot beyond the result carries the empty marker (disabled, href '/',
\* empty title, link text and target).
C11_EverySlotRewritten ==
    outcome = "rendered" =>
        LET result == Take(Reference(search_textbox), Capacity) IN
        /\ Take(sites, Capacity) = result
        /\ \A i \in 1..Capacity :
            /\ search_options[i] # Undefined
            /\ LET slot == Value(search_options[i]) IN
               IF i <= Len(result)
               THEN LET site == Value(search_sites)[result[i] + 1] IN
                    /\ ~slot.disabled
                    /\ slot.title = site.title
                    /\ slot.href = site.path
                    /\ slot.link = site.path
               ELSE slot = [disabled |-> TRUE, href |-> <<Slash>>, title |-> "",
                            link |-> <<>>, target |-> ""]

\* a result that fills some slots and leaves others empty
C11_Witness ==
    /\ outcome = "rendered"
    /\ last_event = "input"
    /\ Len(sites) > 0
    /\ Len(sites) < Capacity
    /\ search_options[Capacity] = Defined(EmptySlot)

\* C12: a populated slot has target '_blank' exactly when its path does not
\* begin with '/', and an empty target when it does; an empty path counts as
\* external.
C12_ExternalLinks ==
    \A i \in 1..Capacity :
        (search_options[i] # Undefined /\ ~Value(search_options[i]).disabled) =>
            LET slot == Value(search_options[i]) IN
            slot.target = IF Len(slot.link) > 0 /\ slot.link[1] = Slash
                          THEN "" ELSE "_blank"

\* slots showing a path that begins with '/', an external path and the
\* empty path
C12_Witness ==
    /\ outcome = "rendered"
    /\ \E i, j, k \in 1..Capacity :
        /\ search_options[i] = Defined(PopulatedSlot(SiteA))
        /\ Value(search_options[i]).target = ""
        /\ search_options[j] = Defined(PopulatedSlot(SiteB))
        /\ Value(search_options[j]).target = "_blank"
        /\ search_options[k] # Undefined
        /\ Value(search_options[k]).link = <<>>
        /\ ~Value(search_options[k]).disabled
        /\ Value(search_options[k]).target = "_blank"

\* the text with each accented letter replaced by its base letter and the
\* combining marks U+0300..U+036F left out
RECURSIVE Unaccented(_)
Unaccented(text) ==
    IF text = <<>> THEN <<>>
    ELSE (CASE Head(text) = 225 -> <<97>>
            [] IsCombiningMark(Head(text)) -> <<>>
            [] OTHER -> <<Head(text)>>)
         \o Unaccented(Tail(text))

C14_LoadFrame ==
    /\ [][last_event' = "load" =>
              UNCHANGED <<search_textbox, search_bg, search_options, sites, outcome,
                          theme_vars, page_vars>>]_vars
    /\ [](outcome = "unavailable" => \A i \in 1..Capacity : search_options[i] = Undefined)

\* C14: completion of the load changes only the three index variables, so
\* text typed before it still shows no result after it, until the next input
\* or panel-open event, after which the slots show the result of the
\* then-current text.
C14_LoadChangesOnlyIndex ==
    /\ C14_LoadFrame
    /\ [][(IndexLoaded /\ outcome = "unavailable" /\ last_event' \in {"input", "open"})
              => Shown' = SlotsOf(Take(Reference(search_textbox'), Capacity))]_vars

\* a click on the search button or background toggles the panel; a click
\* that opens it clears the textbox and runs onSearchChange; a click that
\* closes it leaves the textbox and the slots as they were
PanelClick ==
    /\ last_event' \in {"open", "close"} =>
           (search_bg' = ~search_bg /\ (last_event' = "open" <=> search_bg'))
    /\ last_event' = "open" =>
           /\ search_textbox' = <<>>
           /\ [outcome |-> outcome', sites |-> sites', options |-> search_options']
                  = RunOn(<<>>)
    /\ last_event' = "close" => UNCHANGED <<search_textbox, search_options>>

\* C15 as stated: each click toggles the panel; opening clears the textbox
\* and runs onSearchChange, so with the index loaded every slot is empty
\* right after; closing changes neither the textbox nor a slot.
C15_OpenPanelShowsNothing ==
    [][/\ PanelClick
       /\ (last_event' = "open" /\ IndexLoaded) => AllSlotsEmpty']_vars

\* C15, amended: the same, with every slot empty right after the panel opens
\* when the loaded word index has no entry for the empty string.
C15_OpenPanelShowsNothingUnlessIndexed ==
    [][/\ PanelClick
       /\ (last_event' = "open" /\ IndexLoaded /\ <<>> \notin IndexWords)
              => AllSlotsEmpty']_vars

\* the panel was opened with the index loaded and shows no result
C15_Witness ==
    /\ last_event = "open"
    /\ search_bg
    /\ IndexLoaded
    /\ <<>> \notin IndexWords
    /\ search_textbox = <<>>
    /\ outcome = "rendered"
    /\ AllSlotsEmpty

\* the overlay is shown
OverlayShown == fullscreen.display = "flex" /\ fullscreen.zIndex = "1000"

\* the image in the overlay is not that of a card lacking one of the three
\* elements
CompleteCardClicked == fullscreen.img # Card(UntitledCard).src

\* C16: for cards holding a title, a date and a content element, the body
\* has the stop-scrolling class exactly when the overlay is shown; a shown
\* overlay holds the image, title, date and content of the card clicked
\* last; a card click shows the overlay, an overlay click hides it (display
\* 'none', z-index -1000) and removes the class.
C16_StopScrollingIffShown ==
    /\ [](CompleteCardClicked =>
            /\ stop_scrolling <=> OverlayShown
            /\ OverlayShown =>
                   /\ fullscreen.img # Undefined
                   /\ fullscreen.title = fullscreen.img
                   /\ fullscreen.date = fullscreen.img
                   /\ fullscreen.content = fullscreen.img)
    /\ [][/\ last_event' = "card" => OverlayShown'
          /\ (last_event' = "card" /\ CompleteCardClicked') => stop_scrolling'
          /\ last_event' = "overlay" =>
                 /\ fullscreen'.display = "none"
                 /\ fullscreen'.zIndex = "-1000"
                 /\ ~stop_scrolling'
                 /\ fullscreen'.img = fullscreen.img
                 /\ fullscreen'.content = fullscreen.content]_vars

\* the overlay shows the second card
C16_Witness ==
    /\ last_event = "card"
    /\ OverlayShown
    /\ stop_scrolling
    /\ fullscreen.img = Card(2).src
    /\ fullscreen.content = Card(2).content

====
